---- MODULE Spec2Model ----
(***************************************************************************)
(* Model of the StellarPopulation class of Notebooks/03.SimpleMean.ipynb   *)
(* (Python 2, numpy).                                                      *)
(*                                                                         *)
(* Numbers.  Distances, noise levels and deviates are floats in the code;  *)
(* here they are integers and the arithmetic of line 100 is exact.  A mean *)
(* is a fraction in lowest terms, or NaN (numpy's 0.0/0.0).                *)
(*                                                                         *)
(* Objects.  A Python object has exactly the attributes that were assigned *)
(* to it; "attrs" is that set.  The value fields of an attribute that is   *)
(* not in attrs are placeholders and are never read by the operations:     *)
(* reading a missing attribute raises AttributeError.                      *)
(*                                                                         *)
(* Random source.  np.random is one global, seedable, deterministic        *)
(* stream.  It is modelled as a state rng and a function of that state;    *)
(* the state at start-up is arbitrary (the notebook never seeds it).       *)
(***************************************************************************)
EXTENDS Integers, Sequences, FiniteSets, TLC

\* ---- bounds of the model ----
NPop == 2          \* population objects that can be constructed
MaxN == 11         \* largest sample size requested (two-digit identifiers)
RngMod == 3        \* number of states of the random stream
MaxMillis == 1     \* largest wall-clock duration reported
KObjects == 3      \* K of 02.Sessions (1000 in the notebook)
NStarsPerCluster == 2   \* N_stars_per_cluster of 03.SimpleMean (100000 there)

\* ---- program constants ----
NumClusters == 10  \* for k in range(10)
DefaultRmsError == 1   \* rms_error=0.1; noise levels count in units of it

\* the object bound to the name "cluster", and the objects of the list "clusters"
Cluster == 1
Pops == 1..NPop

\* arguments tried on the single object
DistanceValues == {-1, 0, 3}
NValues == {-1, 0, 1, 2, MaxN}
RmsValues == {-1, 0, 1}

\* arguments tried on the objects of the list
ClusterDistances == {0, 3}
ClusterNValues == {-1, 2}
ClusterRmsValues == {1}

VARIABLES
    clusters,   \* clusters[p]: the attributes of StellarPopulation object p
    rng,        \* the state of the global random stream np.random
    ret,        \* the last call: its arguments, the exception it raised or
                \* the values it returned, and the number of observations the
                \* object held before it (-1: no d_obs attribute)
    lastGen,    \* lastGen[p]: N, rms_error and the stream state at the start
                \* of the last generate call on p that returned (history)
    session,    \* session.new: the objects added and not yet committed, in
                \* the order they were added
    db,         \* the rows the database file holds (committed), in the order
                \* they were inserted
    nb,         \* the notebook's position: the cell being run (pc) and its
                \* loop variables k, i, j
    out         \* the last session.commit or estimate_mean call: what it
                \* raised, printed and returned

dbvars == <<session, db, nb, out>>

vars == <<clusters, rng, ret, lastGen, session, db, nb, out>>

\* ---- values ----
NoObject == [attrs |-> {}, distance |-> 0, N |-> 0, rms_error |-> 0,
             d_obs |-> <<>>, id |-> <<>>]

NoMean == [kind |-> "none", num |-> 0, den |-> 0]
NaN == [kind |-> "nan", num |-> 0, den |-> 0]

NoGen == [seed |-> 0, N |-> 0, rms_error |-> 0]

NoCall == [op |-> "none", pop |-> 0, distance |-> 0, N |-> 0, rms_error |-> 0,
           exc |-> "none", mu |-> NoMean, time |-> 0, before |-> -1]

\* ---- str(i): the decimal form of an integer, as a sequence of characters ----
Digit == <<"0", "1", "2", "3", "4", "5", "6", "7", "8", "9">>

RECURSIVE StrNat(_)
StrNat(n) == IF n < 10 THEN <<Digit[n + 1]>>
             ELSE StrNat(n \div 10) \o <<Digit[(n % 10) + 1]>>

str(i) == IF i < 0 THEN <<"-">> \o StrNat(0 - i) ELSE StrNat(i)

\* range(N): [0, 1, ..., N-1]; empty when N <= 0
range(N) == [i \in 1..(IF N > 0 THEN N ELSE 0) |-> i - 1]

\* map(f, list) of Python 2: a list
map_str(l) == [i \in 1..Len(l) |-> str(l[i])]

\* ---- the random stream ----
Deviate(s) == (s % 3) - 1

randn_ok(N) == N >= 0

randn(s, N) == [i \in 1..N |-> Deviate((s + i - 1) % RngMod)]

rng_after(s, N) == (s + N) % RngMod

\* ---- np.mean ----
RECURSIVE add_reduce(_)
add_reduce(a) == IF Len(a) = 0 THEN 0 ELSE a[1] + add_reduce(Tail(a))

Abs(x) == IF x < 0 THEN 0 - x ELSE x

RECURSIVE Gcd(_, _)
Gcd(a, b) == IF b = 0 THEN a ELSE Gcd(b, a % b)

Fraction(n, d) == LET g == Gcd(Abs(n), d)
                  IN [kind |-> "num", num |-> n \div g, den |-> d \div g]

np_mean_skip_first(a) == IF Len(a) = 0 THEN NaN
                         ELSE Fraction(add_reduce(Tail(a)), Len(a))

np_mean(a) == IF Len(a) = 0 THEN NaN
              ELSE Fraction(add_reduce(a), Len(a))

\* ---- StellarPopulation ----
\* __init__(self, distance): no validation, so it never raises
init_rejects_non_positive(distance) == IF distance > 0 THEN "none" ELSE "ValueError"

init_exc(distance) == "none"

\* __init__(self, distance): the object right after construction
init_with_empty_sample(distance) ==
    [NoObject EXCEPT !.attrs = {"distance", "d_obs", "id"}, !.distance = distance]

init(distance) == [NoObject EXCEPT !.attrs = {"distance"}, !.distance = distance]

\* generate: lines 98-99, the two assignments made before anything can raise
generate_args(self, N, rms_error) ==
    [self EXCEPT !.attrs = @ \cup {"N", "rms_error"},
                 !.N = N, !.rms_error = rms_error]

\* generate: line 100, the observed distances drawn from stream state s
generate_d_obs_append(self, s) ==
    LET z == randn(s, self.N)
    IN self.d_obs \o
       [i \in 1..self.N |-> self.distance + (self.rms_error * self.distance) * z[i]]

generate_d_obs_accumulate(self, s) ==
    LET z == randn(s, self.N)
    IN [i \in 1..self.N |->
          (IF i <= Len(self.d_obs) THEN self.d_obs[i] ELSE self.distance)
          + (self.rms_error * self.distance) * z[i]]

generate_d_obs(self, s) ==
    LET z == randn(s, self.N)
    IN [i \in 1..self.N |-> self.distance + (self.rms_error * self.distance) * z[i]]

\* generate: line 101
generate_id_one_based(self) == [i \in 1..Len(range(self.N)) |-> str(i)]

generate_id(self) == map_str(range(self.N))

\* generate(self, N, rms_error) run from stream state s: the object afterwards.
\* np.random.randn raises ValueError for a negative N, after lines 98-99 ran.
generate_id_before_draw(self, N, rms_error, s) ==
    LET s1 == generate_args(self, N, rms_error)
        s2 == [s1 EXCEPT !.attrs = @ \cup {"id"}, !.id = generate_id(s1)]
    IN IF ~randn_ok(N) THEN s2
       ELSE [s2 EXCEPT !.attrs = @ \cup {"d_obs"}, !.d_obs = generate_d_obs(s2, s)]

generate(self, N, rms_error, s) ==
    LET s1 == generate_args(self, N, rms_error)
    IN IF ~randn_ok(N) THEN s1
       ELSE LET s2 == [s1 EXCEPT !.attrs = @ \cup {"d_obs"},
                                 !.d_obs = generate_d_obs(s1, s)]
            IN [s2 EXCEPT !.attrs = @ \cup {"id"}, !.id = generate_id(s2)]

generate_exc(self, N, rms_error) == IF randn_ok(N) THEN "none" ELSE "ValueError"

\* estimate_mean_distance(self): reading self.d_obs raises AttributeError when
\* the attribute was never assigned; np.mean of an empty array is nan.
estimate_mean_distance_exc(self) ==
    IF "d_obs" \in self.attrs THEN "none" ELSE "AttributeError"

estimate_mean_distance_mu(self) ==
    IF "d_obs" \in self.attrs THEN np_mean(self.d_obs) ELSE NoMean

\* estimate_mean_distance assigns no attribute of self
estimate_mean_distance_consumes(self) ==
    [self EXCEPT !.attrs = @ \ {"d_obs", "id"}, !.d_obs = <<>>, !.id = <<>>]

estimate_mean_distance_self(self) == self

\* self.<attr> = value: the attribute is set on the instance the method was
\* called on; the class has no attribute shared by its instances
assign_shared_buffers(cs, p, o) ==
    [q \in DOMAIN cs |->
        IF q = p THEN o
        ELSE IF "distance" \in cs[q].attrs /\ "d_obs" \in o.attrs
             THEN [cs[q] EXCEPT !.attrs = @ \cup {"d_obs", "id"},
                                !.d_obs = o.d_obs, !.id = o.id]
             ELSE cs[q]]

assign(cs, p, o) == [cs EXCEPT ![p] = o]

\* ---- the mapped classes: one row of a table ----
\* x, y are the Float columns (ra, dec or distance), ref the foreign key;
\* has_id is FALSE while the primary key is None
NoOut == [op |-> "none", exc |-> "none", k |-> 0, method |-> "none",
          mean |-> NoMean, time |-> 0, memory |-> 0]

NoNb == [pc |-> "none", k |-> 0, i |-> 0, j |-> 0]

Object(ra, dec) ==
    [table |-> "object", has_id |-> FALSE, id |-> 0, ref |-> 0, x |-> ra, y |-> dec]

Distance(distance, object_id) ==
    [table |-> "distance", has_id |-> FALSE, id |-> 0, ref |-> object_id,
     x |-> distance, y |-> 0]

Population(id, distance) ==
    [table |-> "population", has_id |-> TRUE, id |-> id, ref |-> 0,
     x |-> distance, y |-> 0]

Star_population_plus_one(id, population_id, distance) ==
    [table |-> "star", has_id |-> TRUE, id |-> id, ref |-> population_id + 1,
     x |-> distance, y |-> 0]

Star(id, population_id, distance) ==
    [table |-> "star", has_id |-> TRUE, id |-> id, ref |-> population_id,
     x |-> distance, y |-> 0]

\* ---- the session ----
Table(rows, t) == SelectSeq(rows, LAMBDA r : r.table = t)

RECURSIVE MaxId(_)
MaxId(rows) == IF rows = <<>> THEN 0
               ELSE LET m == MaxId(Tail(rows))
                    IN IF Head(rows).id > m THEN Head(rows).id ELSE m

\* the id given to a row inserted without one: the next integer in the
\* sequence of its table, starting from 1
next_id(rows, t) == MaxId(Table(rows, t)) + 1

\* session.add(obj): the object joins the transaction list
session_add(new, obj) == Append(new, obj)

\* the INSERTs of a flush, in the order the objects were added; a primary key
\* that is already in the table fails the whole transaction.  SQLite does not
\* enforce the foreign keys.
with_id(rows, o) ==
    IF o.has_id THEN o
    ELSE [o EXCEPT !.has_id = TRUE, !.id = next_id(rows, o.table)]

flush_first_only(rows, new) ==
    IF new = <<>> THEN [ok |-> TRUE, rows |-> rows]
    ELSE [ok |-> TRUE, rows |-> Append(rows, with_id(rows, Head(new)))]

RECURSIVE flush(_, _)
flush(rows, new) ==
    IF new = <<>> THEN [ok |-> TRUE, rows |-> rows]
    ELSE LET r == with_id(rows, Head(new))
         IN IF \E n \in 1..Len(rows) :
                    rows[n].table = r.table /\ rows[n].id = r.id
            THEN [ok |-> FALSE, rows |-> rows]
            ELSE flush(Append(rows, r), Tail(new))

\* session.commit(): the rows of the database file afterwards
session_commit_exc(rows, new) ==
    IF flush(rows, new).ok THEN "none" ELSE "IntegrityError"

session_commit(rows, new) ==
    IF flush(rows, new).ok THEN flush(rows, new).rows ELSE rows

\* ---- state machine ----
DbNone ==
    /\ session = <<>>
    /\ db = <<>>
    /\ nb = NoNb
    /\ out = NoOut

Init ==
    /\ clusters = [p \in Pops |-> NoObject]
    /\ rng \in 0..(RngMod - 1)
    /\ ret = NoCall
    /\ lastGen = [p \in Pops |-> NoGen]
    /\ DbNone

Constructed(p) == "distance" \in clusters[p].attrs

Present(p) == "d_obs" \in clusters[p].attrs

ObsCount(self) == IF "d_obs" \in self.attrs THEN Len(self.d_obs) ELSE -1

\* StellarPopulation(distance), bound to a name that held no object yet
Construct(p, distance) ==
    /\ ~Constructed(p)
    /\ clusters' = IF init_exc(distance) = "none"
                   THEN [clusters EXCEPT ![p] = init(distance)]
                   ELSE clusters
    /\ ret' = [NoCall EXCEPT !.op = "__init__", !.pop = p, !.distance = distance,
                             !.exc = init_exc(distance)]
    /\ UNCHANGED <<rng, lastGen>>
    /\ UNCHANGED dbvars

\* clusters[p].generate(N, rms_error)
Generate(p, N, rms_error) ==
    /\ Constructed(p)
    /\ clusters' = assign(clusters, p, generate(clusters[p], N, rms_error, rng))
    /\ rng' = IF randn_ok(N) THEN rng_after(rng, N) ELSE rng
    /\ lastGen' = IF generate_exc(clusters[p], N, rms_error) = "none"
                  THEN [lastGen EXCEPT ![p] = [seed |-> rng, N |-> N,
                                               rms_error |-> rms_error]]
                  ELSE lastGen
    /\ ret' = [NoCall EXCEPT !.op = "generate", !.pop = p, !.N = N,
                             !.rms_error = rms_error,
                             !.exc = generate_exc(clusters[p], N, rms_error),
                             !.before = ObsCount(clusters[p])]
    /\ UNCHANGED dbvars

\* clusters[p].estimate_mean_distance(), the timer reading t milliseconds
EstimateMeanDistance(p, t) ==
    /\ Constructed(p)
    /\ clusters' = assign(clusters, p, estimate_mean_distance_self(clusters[p]))
    /\ ret' = [NoCall EXCEPT !.op = "estimate_mean_distance", !.pop = p,
                             !.exc = estimate_mean_distance_exc(clusters[p]),
                             !.mu = estimate_mean_distance_mu(clusters[p]),
                             !.time = IF estimate_mean_distance_exc(clusters[p]) = "none"
                                      THEN t ELSE 0,
                             !.before = ObsCount(clusters[p])]
    /\ UNCHANGED <<rng, lastGen>>
    /\ UNCHANGED dbvars

\* one object, every argument
Next ==
    \/ \E d \in DistanceValues : Construct(Cluster, d)
    \/ \E N \in NValues, r \in RmsValues : Generate(Cluster, N, r)
    \/ \E t \in 0..MaxMillis : EstimateMeanDistance(Cluster, t)

Spec == Init /\ [][Next]_vars

\* several objects sharing the one random stream
NextClusters ==
    \/ \E p \in Pops, d \in ClusterDistances : Construct(p, d)
    \/ \E p \in Pops, N \in ClusterNValues, r \in ClusterRmsValues : Generate(p, N, r)
    \/ \E p \in Pops, t \in 0..MaxMillis : EstimateMeanDistance(p, t)

SpecClusters == Init /\ [][NextClusters]_vars

\* ---- 02.Sessions: the insertion cells ----
RaValues == {9, 11}
DecValues == {-33, -30}
DValues == {40, 60}

popvars == <<clusters, rng, ret, lastGen>>

InitSessions ==
    /\ clusters = [p \in Pops |-> NoObject]
    /\ rng = 0
    /\ ret = NoCall
    /\ lastGen = [p \in Pops |-> NoGen]
    /\ session = <<>>
    /\ db = <<>>
    /\ nb = [NoNb EXCEPT !.pc = "objects"]
    /\ out = NoOut

\* one pass of "for i in range(K)": add an Object with no id
AddObject(ra, dec) ==
    /\ nb.pc = "objects"
    /\ nb.i < KObjects
    /\ session' = session_add(session, Object(ra, dec))
    /\ nb' = [nb EXCEPT !.i = @ + 1]
    /\ UNCHANGED <<db, out>>
    /\ UNCHANGED popvars

\* the session.commit() that ends a cell, the loop having run to its end
Commit(pc, n, then) ==
    /\ nb.pc = pc
    /\ nb.i = n
    /\ db' = session_commit(db, session)
    /\ session' = IF session_commit_exc(db, session) = "none" THEN <<>> ELSE session
    /\ out' = [NoOut EXCEPT !.op = "commit", !.exc = session_commit_exc(db, session)]
    /\ nb' = IF session_commit_exc(db, session) = "none"
             THEN [NoNb EXCEPT !.pc = then]
             ELSE [nb EXCEPT !.pc = "error"]
    /\ UNCHANGED popvars

\* the object_id the distance loop gives its i-th row
distance_object_id_zero_based(i) == i

distance_object_id(i) == i + 1

\* one pass of the second "for i in range(K)": add a Distance with no id
AddDistance(d) ==
    /\ nb.pc = "distances"
    /\ nb.i < KObjects
    /\ session' = session_add(session, Distance(d, distance_object_id(nb.i)))
    /\ nb' = [nb EXCEPT !.i = @ + 1]
    /\ UNCHANGED <<db, out>>
    /\ UNCHANGED popvars

NextSessions ==
    \/ \E ra \in RaValues, dec \in DecValues : AddObject(ra, dec)
    \/ Commit("objects", KObjects, "distances")
    \/ \E d \in DValues : AddDistance(d)
    \/ Commit("distances", KObjects, "done")

SpecSessions == InitSessions /\ [][NextSessions]_vars

\* ---- 03.SimpleMean: the database cells ----
Methods == {"query_stars", "query_distances", "pandas_query_stars",
            "pandas_query_distances", "sql_function"}
MemoryValues == {0, 1}

\* float(k): the same number
float(k) == k

InitMean ==
    /\ clusters = [k \in 0..(NumClusters - 1) |-> NoObject]
    /\ rng \in 0..(RngMod - 1)
    /\ ret = NoCall
    /\ lastGen = [k \in 0..(NumClusters - 1) |-> NoGen]
    /\ session = <<>>
    /\ db = <<>>
    /\ nb = [NoNb EXCEPT !.pc = "clusters"]
    /\ out = NoOut

\* one pass of the cluster creation loop: construct, generate, session.add
CreateCluster ==
    /\ nb.pc = "clusters"
    /\ nb.k < NumClusters
    /\ LET k == nb.k
           d_c == float(k)
           exc == generate_exc(init(d_c), NStarsPerCluster, DefaultRmsError)
       IN /\ clusters' = assign(clusters, k,
                 generate(init(d_c), NStarsPerCluster, DefaultRmsError, rng))
          /\ rng' = IF exc = "none" THEN rng_after(rng, NStarsPerCluster) ELSE rng
          /\ lastGen' = IF exc = "none"
                        THEN [lastGen EXCEPT ![k] = [seed |-> rng,
                                  N |-> NStarsPerCluster,
                                  rms_error |-> DefaultRmsError]]
                        ELSE lastGen
          /\ ret' = [NoCall EXCEPT !.op = "generate", !.pop = k,
                                   !.N = NStarsPerCluster,
                                   !.rms_error = DefaultRmsError, !.exc = exc]
          /\ session' = IF exc = "none"
                        THEN session_add(session, Population(k, d_c))
                        ELSE session
          /\ nb' = IF exc # "none" THEN [nb EXCEPT !.pc = "error"]
                   ELSE IF k + 1 = NumClusters THEN [NoNb EXCEPT !.pc = "stars"]
                   ELSE [nb EXCEPT !.k = k + 1]
    /\ UNCHANGED <<db, out>>

\* j += 1
star_next_j_stuck(j) == j

star_next_j(j) == j + 1

\* one pass of the inner star loop: "for d_s in clusters[k].d_obs"
AddStar ==
    /\ nb.pc = "stars"
    /\ nb.k < NumClusters
    /\ nb.i < Len(clusters[nb.k].d_obs)
    /\ session' = session_add(session,
                       Star(nb.j, nb.k, clusters[nb.k].d_obs[nb.i + 1]))
    /\ nb' = [nb EXCEPT !.i = @ + 1, !.j = star_next_j(@)]
    /\ UNCHANGED <<db, out>>
    /\ UNCHANGED popvars

\* the inner loop is exhausted: the outer "for k in range(10)" moves on
NextClusterStars ==
    /\ nb.pc = "stars"
    /\ nb.k < NumClusters
    /\ nb.i = Len(clusters[nb.k].d_obs)
    /\ nb' = IF nb.k + 1 = NumClusters THEN [NoNb EXCEPT !.pc = "commit"]
             ELSE [nb EXCEPT !.k = @ + 1, !.i = 0]
    /\ UNCHANGED <<session, db, out>>
    /\ UNCHANGED popvars

\* what a session.query sees (it flushes the session first) and what
\* pd.read_sql sees through session.bind, the engine
session_rows(rows, new) == flush(rows, new).rows

engine_rows(rows) == rows

\* .filter(Star.population_id == k), on the star table
filter_stars(rows, k) == SelectSeq(Table(rows, "star"), LAMBDA r : r.ref = k)

column_distance(rows) == [n \in 1..Len(rows) |-> rows[n].x]

\* func.avg: NULL (None) over no rows
sql_avg(a) == IF Len(a) = 0 THEN NoMean ELSE Fraction(add_reduce(a), Len(a))

mean_sql_function_unfiltered(k, rows, new) ==
    sql_avg(column_distance(Table(session_rows(rows, new), "star")))

mean_sql_function(k, rows, new) ==
    sql_avg(column_distance(filter_stars(session_rows(rows, new), k)))

\* the mean estimate_mean prints, by method
estimate_mean_value(k, method, rows, new) ==
    IF method = "query_stars"
    THEN LET stars == filter_stars(session_rows(rows, new), k)
         IN np_mean([n \in 1..Len(stars) |-> stars[n].x])
    ELSE IF method = "query_distances"
    THEN LET distances == column_distance(filter_stars(session_rows(rows, new), k))
         IN np_mean(distances)
    ELSE IF method = "pandas_query_stars"
    THEN LET df == filter_stars(engine_rows(rows), k)
         IN np_mean(column_distance(df))
    ELSE IF method = "pandas_query_distances"
    THEN LET df == column_distance(filter_stars(engine_rows(rows), k))
         IN np_mean(df)
    ELSE IF method = "sql_function"
    THEN mean_sql_function(k, rows, new)
    ELSE NoMean

\* estimate_mean(k, method), the timer reading t and the heap growing by m
EstimateMean(k, method, t, m) ==
    /\ nb.pc = "query"
    /\ out' = [NoOut EXCEPT !.op = "estimate_mean", !.k = k, !.method = method,
                            !.mean = estimate_mean_value(k, method, db, session),
                            !.time = t, !.memory = m]
    /\ UNCHANGED <<session, db, nb>>
    /\ UNCHANGED popvars

NextMean ==
    \/ CreateCluster
    \/ AddStar
    \/ NextClusterStars
    \/ Commit("commit", 0, "query")
    \/ \E k \in 0..(NumClusters - 1), method \in Methods,
          t \in 0..MaxMillis, m \in MemoryValues : EstimateMean(k, method, t, m)

SpecMean == InitMean /\ [][NextMean]_vars

\* ---- properties ----
\* the last call and the object it was made on
Called(op) == ret.op = op
Self == clusters[ret.pop]
Returned == ret.exc = "none"

\* the decimal numeral of i, for 0 <= i < 100
Numeral(i) == IF i < 10 THEN <<Digit[i + 1]>>
              ELSE <<Digit[(i \div 10) + 1], Digit[(i % 10) + 1]>>

RECURSIVE SumTo(_, _)
SumTo(a, n) == IF n = 0 THEN 0 ELSE SumTo(a, n - 1) + a[n]

\* C1: after a generate(N, rms_error) call that returned, on a population of
\* distance > 0 with N >= 0 and rms_error >= 0, there are exactly N observed
\* distances and N identifiers, the identifier at position i is the decimal
\* numeral of i (counting from 0), and no two identifiers are equal.
C1_GenerateYieldsNIndexed ==
    (Called("generate") /\ Returned /\ Self.distance > 0
        /\ ret.N >= 0 /\ ret.rms_error >= 0)
    => /\ {"d_obs", "id"} \subseteq Self.attrs
       /\ Len(Self.d_obs) = ret.N
       /\ Len(Self.id) = ret.N
       /\ \A i \in 1..ret.N : Self.id[i] = Numeral(i - 1)
       /\ \A i, j \in 1..ret.N : i # j => Self.id[i] # Self.id[j]

C1_Witness ==
    /\ Called("generate") /\ Returned /\ Self.distance > 0
    /\ ret.N = MaxN /\ ret.rms_error >= 0
    /\ Len(Self.id) = MaxN

\* C2: in every reachable state the identifiers and the observed distances of a
\* population are both absent or both present, have the same length, and at
\* every position i the identifier is the numeral of star i-1 and the observed
\* distance is the one drawn for that star by the last generate that returned.
C2_IdsAlignedWithObservations ==
    \A p \in Pops :
        LET o == clusters[p]
            g == lastGen[p]
        IN /\ ("d_obs" \in o.attrs) <=> ("id" \in o.attrs)
           /\ Len(o.id) = Len(o.d_obs)
           /\ "d_obs" \in o.attrs =>
                \A i \in 1..Len(o.d_obs) :
                    /\ o.id[i] = Numeral(i - 1)
                    /\ o.d_obs[i] = o.distance + (g.rms_error * o.distance)
                                       * Deviate((g.seed + i - 1) % RngMod)

\* a sample survives a later generate call that raised
C2_Witness ==
    /\ Called("generate") /\ ~Returned
    /\ ret.before >= 2
    /\ Len(Self.id) = ret.before /\ Len(Self.d_obs) = ret.before
    /\ Self.N # Len(Self.d_obs)

\* C3: estimate_mean_distance on a population on which generate was never
\* called (no N attribute was ever assigned) raises (AttributeError, the
\* precondition failure) and returns no mean.
C3_EstimateBeforeGenerateFails ==
    (Called("estimate_mean_distance") /\ "N" \notin Self.attrs)
    => /\ ret.exc = "AttributeError"
       /\ ret.mu = NoMean

C3_Witness ==
    /\ Called("estimate_mean_distance")
    /\ Self.attrs = {"distance"}
    /\ ~Returned

\* C4: generate(0, r) leaves an empty observation sequence, and an
\* estimate_mean_distance call on an empty sample raises instead of returning a
\* mean value.
C4_EmptySampleFails ==
    /\ (Called("generate") /\ Returned /\ ret.N = 0)
          => ("d_obs" \in Self.attrs /\ Self.d_obs = <<>>)
    /\ (Called("estimate_mean_distance") /\ ObsCount(Self) = 0)
          => (~Returned /\ ret.mu = NoMean)

\* C5: generate(N, rms_error) raises whenever N is negative and whenever
\* rms_error is negative, and then holds no sample drawn by that call.
C5_NegativeParameterFails ==
    (Called("generate") /\ (ret.N < 0 \/ ret.rms_error < 0))
    => /\ ~Returned
       /\ ObsCount(Self) = ret.before

\* C6 as stated: constructing a population with a non-positive distance raises
\* and yields no population object.
C6_NonPositiveDistanceFails ==
    (Called("__init__") /\ ret.distance <= 0)
    => /\ ~Returned
       /\ ~Constructed(ret.pop)

\* C6 amended: constructing a population with a non-positive distance returns
\* a population that stores that distance and has no other attribute (no
\* observations).
C6_NonPositiveDistanceAccepted ==
    (Called("__init__") /\ ret.distance <= 0)
    => /\ Returned
       /\ Self.attrs = {"distance"}
       /\ Self.distance = ret.distance

C6_Witness ==
    /\ Called("__init__") /\ ret.distance = -1
    /\ Constructed(ret.pop)

\* C7: a population has no observations when constructed; observations appear
\* only by a generate call that returned; once present they are present in
\* every later state; and a generate that returned on a population that
\* already had a sample leaves exactly the N new observations.
C7_PhaseStep(p) ==
    /\ (ret'.op = "__init__" /\ ret'.pop = p) => ~Present(p)'
    /\ (~Present(p) /\ Present(p)')
          => (ret'.op = "generate" /\ ret'.pop = p /\ ret'.exc = "none")
    /\ Present(p) => Present(p)'
    /\ (Present(p) /\ ret'.op = "generate" /\ ret'.pop = p /\ ret'.exc = "none")
          => /\ Len(clusters'[p].d_obs) = ret'.N
             /\ Len(clusters'[p].id) = ret'.N
             /\ \A i \in 1..ret'.N :
                    clusters'[p].d_obs[i] =
                        clusters[p].distance + (ret'.rms_error * clusters[p].distance)
                                                  * Deviate((rng + i - 1) % RngMod)

C7_ObservationsStayPresent == [][\A p \in Pops : C7_PhaseStep(p)]_vars

\* a generate that returned on a population holding a sample of another size
C7_Witness ==
    /\ Called("generate") /\ Returned
    /\ ret.before >= 1 /\ ret.N >= 1 /\ ret.N # ret.before
    /\ Len(Self.d_obs) = ret.N

\* C8: an estimate_mean_distance call changes no attribute of any population
\* and not the random stream, and a call that directly follows another one on
\* the same population returns the same mean.
C8_EstimateStep ==
    ret'.op = "estimate_mean_distance"
    => /\ clusters' = clusters
       /\ rng' = rng
       /\ (ret.op = "estimate_mean_distance" /\ ret.pop = ret'.pop)
             => (ret'.mu = ret.mu /\ ret'.exc = ret.exc)

C8_EstimateChangesNothing == [][C8_EstimateStep]_vars

C8_Witness ==
    /\ Called("estimate_mean_distance") /\ Returned
    /\ ret.mu.kind = "num" /\ ret.time = MaxMillis
    /\ Self.N # Len(Self.d_obs)

\* C9: on a population holding N >= 1 observations estimate_mean_distance
\* returns, and the mean it returns is the sum of all N stored observed
\* distances divided by N.
C9_MeanIsSumOverN ==
    (Called("estimate_mean_distance") /\ ObsCount(Self) >= 1)
    => /\ Returned
       /\ ret.mu.kind = "num"
       /\ ret.mu.den > 0
       /\ ret.mu.num * Len(Self.d_obs) = ret.mu.den * SumTo(Self.d_obs, Len(Self.d_obs))

\* a mean that is not an integer, over the largest sample
C9_Witness ==
    /\ Called("estimate_mean_distance") /\ Returned
    /\ Len(Self.d_obs) = MaxN
    /\ ret.mu.kind = "num" /\ ret.mu.den > 1 /\ ret.mu.num # 0

\* C10: two populations of the same distance whose last generate calls got the
\* same N and rms_error and started from the same state of the random stream
\* hold the same observed distances and the same identifiers.
C10_SameSeedSameSample ==
    \A p, q \in Pops :
        (Present(p) /\ Present(q)
            /\ clusters[p].distance = clusters[q].distance
            /\ lastGen[p] = lastGen[q])
        => /\ clusters[p].d_obs = clusters[q].d_obs
           /\ clusters[p].id = clusters[q].id

\* two distinct populations in that case, one of them generated twice
C10_Witness ==
    \E p, q \in Pops :
        /\ p # q /\ Present(p) /\ Present(q)
        /\ clusters[p].distance = clusters[q].distance
        /\ clusters[p].distance # 0
        /\ lastGen[p] = lastGen[q]
        /\ Len(clusters[p].d_obs) >= 2
        /\ clusters[p].d_obs[1] # clusters[p].d_obs[2]
        /\ Called("generate") /\ Returned /\ ret.before >= 1

\* C11: a generate or estimate_mean_distance call on one population leaves
\* every attribute (distance, N, rms_error, id, d_obs) of every other
\* population as it was.
C11_OtherStep(p) ==
    (ret'.op \in {"generate", "estimate_mean_distance"} /\ ret'.pop # p)
    => clusters'[p] = clusters[p]

C11_OtherInstancesUntouched == [][\A p \in Pops : C11_OtherStep(p)]_vars

\* a generate returned on one population while another one holds a sample
\* drawn with different deviates
C11_Witness ==
    \E q \in Pops :
        /\ Called("generate") /\ Returned /\ ret.pop # q
        /\ Present(q) /\ Len(clusters[q].d_obs) >= 2
        /\ Self.distance = clusters[q].distance
        /\ Self.d_obs # clusters[q].d_obs

\* C16: a generate call that raised leaves the population as it was before
\* the call (N, rms_error, id and d_obs unchanged), so that the stored N is
\* still the number of stored observations.
C16_FailedStep ==
    (ret'.op = "generate" /\ ret'.exc # "none")
    => /\ clusters' = clusters
       /\ Present(ret'.pop) => clusters'[ret'.pop].N = Len(clusters'[ret'.pop].d_obs)

C16_FailedGenerateChangesNothing == [][C16_FailedStep]_vars

\* ---- properties of the database cells ----
SameRecord(row, obj) ==
    /\ row.table = obj.table
    /\ row.x = obj.x /\ row.y = obj.y /\ row.ref = obj.ref
    /\ obj.has_id => row.id = obj.id

\* C14: session.add only stages: a step that adds to the session leaves the
\* rows of the database as they were; the rows change only in a
\* session.commit step, which appends exactly the records staged since the
\* previous commit, in the order they were added, and empties the session.
C14_Step ==
    /\ Len(session') > Len(session) => db' = db
    /\ db' # db =>
          /\ nb'.pc # nb.pc
          /\ out'.op = "commit" /\ out'.exc = "none"
          /\ session' = <<>>
          /\ Len(db') = Len(db) + Len(session)
          /\ \A n \in 1..Len(db) : db'[n] = db[n]
          /\ \A n \in 1..Len(session) : SameRecord(db'[Len(db) + n], session[n])

C14_OnlyCommitPersists == [][C14_Step]_vars

\* the second commit has written the distances staged after the first one
C14_Witness ==
    /\ nb.pc = "done" /\ out.op = "commit" /\ out.exc = "none"
    /\ session = <<>>
    /\ Len(Table(db, "object")) = KObjects
    /\ Len(Table(db, "distance")) = KObjects

\* C15: the K objects added without an id get the ids 1..K in the order they
\* were added, and when the distance cell is done there is exactly one Distance
\* row per Object row: every object_id is the id of an Object and every Object
\* has exactly one Distance.
C15_Step ==
    /\ (nb.pc = "objects" /\ nb'.pc # "objects") =>
          LET o == Table(db', "object")
          IN /\ nb'.pc = "distances"
             /\ Len(o) = KObjects /\ Len(session) = KObjects
             /\ \A n \in 1..KObjects :
                    o[n].id = n /\ SameRecord(o[n], session[n])
    /\ (nb.pc = "distances" /\ nb'.pc # "distances") =>
          LET o == Table(db', "object")
              d == Table(db', "distance")
          IN /\ nb'.pc = "done"
             /\ Len(d) = KObjects /\ Len(o) = KObjects
             /\ \A n \in 1..Len(d) : \E m \in 1..Len(o) : o[m].id = d[n].ref
             /\ \A m \in 1..Len(o) :
                    Cardinality({n \in 1..Len(d) : d[n].ref = o[m].id}) = 1

C15_OneDistancePerObject == [][C15_Step]_vars

C15_Witness ==
    /\ nb.pc = "done"
    /\ \A n \in 1..KObjects :
          /\ Table(db, "object")[n].id = n
          /\ Table(db, "distance")[n].ref = n
    /\ Table(db, "object")[1].x # Table(db, "object")[KObjects].x

\* the Star records added so far, in the order they were added
StarsAdded == Table(db \o session, "star")

\* C12: the star ids are given by hand from 0 and go up by exactly 1 per star
\* added, so the n-th star added has id n-1; after the star insertion loop
\* they are exactly 0 .. 10*N_stars_per_cluster - 1, without gap or repeat.
C12_StarIdsCountFromZero ==
    /\ \A n \in 1..Len(StarsAdded) : StarsAdded[n].id = n - 1
    /\ \A n, m \in 1..Len(StarsAdded) :
          n # m => StarsAdded[n].id # StarsAdded[m].id
    /\ nb.pc = "stars" => Len(StarsAdded) = nb.j
    /\ nb.pc \in {"commit", "query"} =>
          /\ Len(StarsAdded) = NumClusters * NStarsPerCluster
          /\ {StarsAdded[n].id : n \in 1..Len(StarsAdded)}
                = 0..(NumClusters * NStarsPerCluster - 1)

C12_Witness ==
    /\ nb.pc = "query" /\ session = <<>>
    /\ Len(Table(db, "star")) = NumClusters * NStarsPerCluster
    /\ Table(db, "star")[Len(Table(db, "star"))].ref = NumClusters - 1

\* C13: after the insertion loops and the commit the population table holds
\* exactly 10 rows, ids 0..9, and the star table 10 * N_stars_per_cluster rows,
\* N_stars_per_cluster for each population_id 0..9, every population_id being
\* the id of a population row.
C13_TablesAfterCommit ==
    nb.pc = "query" =>
        LET pop == Table(db, "population")
            star == Table(db, "star")
        IN /\ Len(pop) = NumClusters
           /\ {pop[n].id : n \in 1..Len(pop)} = 0..(NumClusters - 1)
           /\ Len(star) = NumClusters * NStarsPerCluster
           /\ \A k \in 0..(NumClusters - 1) :
                 Cardinality({n \in 1..Len(star) : star[n].ref = k})
                    = NStarsPerCluster
           /\ \A n \in 1..Len(star) :
                 \E m \in 1..Len(pop) : pop[m].id = star[n].ref

C13_Witness ==
    /\ nb.pc = "query" /\ out.op = "commit" /\ out.exc = "none"
    /\ Len(Table(db, "population")) = NumClusters
    /\ Len(Table(db, "star")) > NumClusters

\* C17: for a population id k, estimate_mean prints the same mean whatever
\* the method: the sum of the distances of exactly the committed stars whose
\* population_id is k, divided by their number; and the call leaves the
\* database and the session as they were.
StarsOf(k) == {n \in 1..Len(db) : db[n].table = "star" /\ db[n].ref = k}

RECURSIVE SumRows(_)
SumRows(S) == IF S = {} THEN 0
              ELSE LET n == CHOOSE n \in S : TRUE
                   IN db[n].x + SumRows(S \ {n})

C17_Step ==
    (nb.pc = "query" /\ out'.op = "estimate_mean")
    => /\ db' = db /\ session' = session
       /\ out'.exc = "none"
       /\ out'.mean.kind = "num" /\ out'.mean.den > 0
       /\ out'.mean.num * Cardinality(StarsOf(out'.k))
             = out'.mean.den * SumRows(StarsOf(out'.k))
       /\ \A m \in Methods :
             estimate_mean_value(out'.k, m, db', session') = out'.mean
       /\ (out.op = "estimate_mean" /\ out.k = out'.k) => out'.mean = out.mean

C17_MethodsAgree == [][C17_Step]_vars

\* the in-database average of population 3, not an integer
C17_Witness ==
    /\ out.op = "estimate_mean" /\ out.method = "sql_function" /\ out.k = 3
    /\ out.mean.kind = "num" /\ out.mean.den > 1
    /\ Cardinality(StarsOf(3)) = NStarsPerCluster

====
